---- MODULE Spec2Model ----
(***************************************************************************)
(* Career_Compass: the serverless Gateway (netlify/functions/gemini.ts and *)
(* its sibling revisions) and the Client Adapter (services/geminiService)  *)
(* that calls it, as a discrete-event state machine.                       *)
(*                                                                         *)
(* The repository holds several revisions of the same two modules.  Each   *)
(* revision is modelled; the revision in use is a configuration choice     *)
(* made in Init (gwVariant, adVariant).                                    *)
(*   Gateway revisions                                                     *)
(*     "gemini1"  src/netlify/functions/gemini.ts   1-153                  *)
(*     "gemini2"  src/netlify/functions/gemini.ts 154-310                  *)
(*     "gemini3"  src/netlify/functions/gemini.ts 313-488                  *)
(*     "part004"  src/unnamed/part_004                                     *)
(*   Adapter revisions (those that call the Gateway)                       *)
(*     "part001"  src/unnamed/part_001  1-73   (fetchWithTimeout)          *)
(*     "part002a" src/unnamed/part_002  1-49                               *)
(*     "part002b" src/unnamed/part_002 51-98                               *)
(* Time is in milliseconds since the current call started.                 *)
(*                                                                         *)
(* The form (App.tsx) and CareerDetailsModal (part_003) call the           *)
(* capability through services/geminiService.ts; they have their own       *)
(* specifications: SpecApp, SpecSubmit and SpecModal.                      *)
(***************************************************************************)
EXTENDS Integers, Sequences, FiniteSets, TLC

VARIABLES
    gwVariant,   \* which Gateway revision is deployed
    adVariant,   \* which Adapter revision is bundled
    apiKey,      \* TRUE iff the credential (process.env.API_KEY) is configured
    sdkStrict,   \* TRUE iff `new GoogleGenAI({apiKey: undefined})` throws
    calls,       \* number of calls started so far
    now,         \* ms since the current call started
    origin,      \* "none" | "adapter" | "direct": who issued the current request
    ad,          \* the Adapter call: pc, op, timer, abort flag, result
    net,         \* the transport: pending deliveries
    gw,          \* the Gateway invocation: pc, event, flags, timer, response
    cap,         \* the external capability: pending answer, invocation count
    app,         \* App's appState: view, step, userData, results, isLoading, error
    submit,      \* the getCareerRecommendations call started by App.handleSubmit
    modal,       \* CareerDetailsModal: props and the three useState cells
    inflight     \* the getCareerDetails calls started by the modal, not yet settled

uiVars == <<app, submit, modal, inflight>>
backendVars == <<gwVariant, adVariant, apiKey, sdkStrict, calls, now, origin, ad, net, gw, cap>>
vars == <<backendVars, uiVars>>

----------------------------------------------------------------------------
(* Bounds and program constants *)

MaxCalls == 2
\* How many times handleSubmit is started in one behaviour.
MaxSubmits == 2
\* How many times the modal's effect runs in one behaviour.
MaxEffects == 3

Never == 0 - 1

\* const AI_TIMEOUT = 8500;  (gemini2)
AI_TIMEOUT == 8500
\* const AI_TIMEOUT_MS = 8000;  (gemini3)
AI_TIMEOUT_MS == 8000
\* const AI_TIMEOUT_MS = 8500;  (part004)
AI_TIMEOUT_MS_part004 == 8500
\* const REQUEST_TIMEOUT = 12000;  (part001)
REQUEST_TIMEOUT == 12000

GatewayVariants == {"gemini1", "gemini2", "gemini3", "part004"}
AdapterVariants == {"part001", "part002a", "part002b"}

\* Environment: how long the capability takes, and how long a transport leg takes.
CapLatencies == {1000, 9000, Never}
ReqDelays    == {100, Never}
RespDelays   == {100, 4000, Never}

----------------------------------------------------------------------------
(* Values *)

\* The capability's text payload (response.text).
NoPayload == [kind |-> "undefined", items |-> <<>>]
EmptyText == [kind |-> "empty", items |-> <<>>]
Garbage   == [kind |-> "garbage", items |-> <<>>]
JsonItems(s) == [kind |-> "json", items |-> s]
JsonDefaultArray  == [kind |-> "json", items |-> <<>>]       \* the literal "[]"
JsonDefaultObject == [kind |-> "jsonObject", items |-> <<>>] \* the literal "{}"

Item(e, r) == [eligibilityStatus |-> e, riskLevel |-> r]
Payloads ==
    { NoPayload, EmptyText, Garbage, JsonDefaultArray,
      JsonItems(<<Item("Eligible", "Low")>>),
      JsonItems(<<Item("Not Eligible", "High"), Item("Eligible", "Medium")>>),
      JsonItems(<<Item("Maybe", "Extreme")>>) }

\* `!text`: undefined and "" are falsy.
Falsy(p) == p.kind \in {"undefined", "empty"}

\* Error values (what a promise rejects with / what is thrown).
Err(n, m)   == [name |-> n, hasMessage |-> TRUE, message |-> m]
ErrNoMsg    == [name |-> "Object", hasMessage |-> FALSE, message |-> ""]
NoError     == [name |-> "none", hasMessage |-> FALSE, message |-> ""]

\* Failures the capability can signal.
CapErrors ==
    { Err("ApiError", "503 Service Unavailable"),
      Err("ApiError", "The model is overloaded. Please try again later."),
      Err("ApiError", "429 RESOURCE_EXHAUSTED: quota exceeded"),
      Err("Error", "fetch failed"),
      Err("Error", "TIMEOUT"),
      ErrNoMsg }

\* String.prototype.includes on the message universe of the model.
Includes(s, sub) ==
    <<s, sub>> \in
      { <<"503 Service Unavailable", "503">>,
        <<"The model is overloaded. Please try again later.", "overloaded">>,
        <<"429 RESOURCE_EXHAUSTED: quota exceeded", "429">>,
        <<"429 RESOURCE_EXHAUSTED: quota exceeded", "quota">>,
        <<"Backend configuration error: API Key missing.", "API Key">>,
        <<"API Key not configured in environment.", "API Key">> }

\* Capability outcomes: a response object or a rejection.
CapOk(t, c) == [ok |-> TRUE, text |-> t, candText |-> c, error |-> NoError]
CapFail(e)  == [ok |-> FALSE, text |-> NoPayload, candText |-> NoPayload, error |-> e]
NoOutcome   == [ok |-> FALSE, text |-> NoPayload, candText |-> NoPayload, error |-> NoError]
CapOutcomes ==
    { CapOk(p, NoPayload) : p \in Payloads }
      \cup { CapOk(NoPayload, JsonItems(<<Item("Eligible", "Low")>>)) }
      \cup { CapFail(e) : e \in CapErrors }

\* HTTP response bodies.
NoBody         == [fmt |-> "none", error |-> "", text |-> "", payload |-> NoPayload]
ErrorBody(m)   == [fmt |-> "errorJson", error |-> m, text |-> "", payload |-> NoPayload]
ErrorBodyUndef == [fmt |-> "emptyJson", error |-> "", text |-> "", payload |-> NoPayload]
TextBody(t)    == [fmt |-> "text", error |-> "", text |-> t, payload |-> NoPayload]
PayloadBody(p) == [fmt |-> "payload", error |-> "", text |-> "", payload |-> p]

Response(s, b) == [statusCode |-> s, body |-> b]
NoResponse     == Response(0, NoBody)

\* Request events handed to the handler.
Body(k, a, u) == [kind |-> k, action |-> a, hasUserData |-> u]
Bodies ==
    { Body("absent", "none", FALSE), Body("notJson", "none", FALSE),
      Body("jsonNull", "none", FALSE) }
      \cup { Body("object", a, u) :
               a \in {"recommendations", "details", "other", "none"}, u \in BOOLEAN }
Event(m, b) == [httpMethod |-> m, body |-> b]
Events == { Event(m, b) : m \in {"POST", "GET"}, b \in Bodies }

----------------------------------------------------------------------------
(* Gateway: handler *)

\* What one run of handler code yields: a returned response, a suspension on
\* the capability call (await runAI), or an exception that escapes the handler.
\* `caught` is the value the catch block received, if it ran.
Return(r, parsed) ==
    [kind |-> "return", response |-> r, action |-> "none", parsed |-> parsed, caught |-> NoError]
Await(a) ==
    [kind |-> "await", response |-> NoResponse, action |-> a, parsed |-> TRUE, caught |-> NoError]
Unhandled(parsed) ==
    [kind |-> "unhandled", response |-> NoResponse, action |-> "none", parsed |-> parsed,
     caught |-> NoError]

\* setTimeout(..., AI_TIMEOUT / AI_TIMEOUT_MS) in runAI; gemini1 calls
\* generateContent without a race.
GatewayDeadline(v) ==
    CASE v = "gemini2" -> AI_TIMEOUT
      [] v = "gemini3" -> AI_TIMEOUT_MS
      [] v = "part004" -> AI_TIMEOUT_MS_part004
      [] OTHER         -> Never

\* The value the timeoutPromise of runAI rejects with.
TimeoutError(v) ==
    IF v = "gemini2" THEN Err("Error", "AI generation timed out (9s limit reached)")
                     ELSE Err("Error", "AI_TIMEOUT")

\* if (event.httpMethod !== "POST") return {statusCode: 405, body: ...}
MethodNotAllowed(v) ==
    IF v \in {"gemini1", "gemini2"}
      THEN Response(405, ErrorBody("Method Not Allowed"))
      ELSE Response(405, TextBody("Method Not Allowed"))

\* if (!apiKey) return {statusCode: 500, body: JSON.stringify({error: ...})}
ConfigError(v) ==
    CASE v = "gemini2" -> Response(500, ErrorBody("Backend configuration error: API Key missing."))
      [] v = "gemini3" -> Response(500, ErrorBody("API_KEY missing. Please configure it in Netlify Site Settings."))
      [] OTHER         -> Response(500, ErrorBody("API Key not configured in environment."))

\* The revisions that check the credential before the try block.
ChecksKey(v) == v # "gemini1"

\* A faulty fall-through after the action dispatch, answering like the catch block.
InvalidAction_As500(v) == Response(500, ErrorBody("The AI advisor is temporarily unavailable."))

\* return {statusCode: 400, body: ...} after the action dispatch
InvalidAction(v) ==
    CASE v = "gemini1" -> Response(400, ErrorBody("Invalid Action Provided"))
      [] v = "part004" -> Response(400, TextBody("Invalid Action"))
      [] OTHER         -> Response(400, ErrorBody("Invalid Action"))

\* statusCode chosen by the catch block for a failure that has a message.
catchStatus(v, m) ==
    IF v \in {"gemini1", "gemini2"} THEN 500
    ELSE IF m = "AI_TIMEOUT" THEN 504
    ELSE IF Includes(m, "503") \/ Includes(m, "overloaded") THEN 503
    ELSE 500

\* The error string the catch block puts in the body.
catchMessage(v, m) ==
    CASE v = "gemini1" -> m
      [] v = "gemini2" -> m
      [] v = "gemini3" ->
           IF m = "AI_TIMEOUT"
             THEN "AI service timed out. Falling back to local guidance."
           ELSE IF Includes(m, "503") \/ Includes(m, "overloaded")
             THEN "AI model is currently overloaded. Falling back to local guidance."
           ELSE "The AI advisor is temporarily unavailable."
      [] OTHER ->
           IF m = "AI_TIMEOUT"
             THEN "AI processing timed out. Switching to local database."
           ELSE IF Includes(m, "503") \/ Includes(m, "overloaded")
             THEN "AI service is currently overloaded. Using local database fallback."
           ELSE "The AI advisor is temporarily unavailable."

\* catch (error: any) { ... }.  gemini1/gemini2 use `error.message || default`;
\* gemini3/part004 call error.message.includes(...), which throws a TypeError
\* out of the catch block when the failure value has no message.
catchBlock(v, e, parsed) ==
    IF e.hasMessage
      THEN Return(Response(catchStatus(v, e.message), ErrorBody(catchMessage(v, e.message))), parsed)
    ELSE IF v = "gemini1"
      THEN Return(Response(500, ErrorBody("Internal server error during AI processing")), parsed)
    ELSE IF v = "gemini2"
      THEN Return(Response(500, ErrorBody("Failed to process AI request")), parsed)
    ELSE Unhandled(parsed)

handlerCatch(v, e, parsed) == [catchBlock(v, e, parsed) EXCEPT !.caught = e]

\* JSON.parse(event.body) (gemini1, gemini2) / JSON.parse(event.body || "{}")
\* (gemini3, part004): TRUE iff it throws a SyntaxError.
ParseThrows(v, b) ==
    \/ b.kind = "notJson"
    \/ b.kind = "absent" /\ v \in {"gemini1", "gemini2"}

\* The try block up to its first await.
tryBlock(v, b, key, strict) ==
    IF ParseThrows(v, b)
      THEN handlerCatch(v, Err("SyntaxError", "Unexpected token in JSON"), TRUE)
    ELSE IF b.kind = "jsonNull"
      THEN handlerCatch(v, Err("TypeError", "Cannot destructure property 'action' of null"), TRUE)
    ELSE IF ~key /\ strict
      THEN handlerCatch(v, Err("Error", "API key must be set when using the Gemini API."), TRUE)
    ELSE IF b.action \in {"recommendations", "details"}
      THEN IF b.hasUserData
             THEN Await(b.action)
             ELSE handlerCatch(v, Err("TypeError", "Cannot read properties of undefined"), TRUE)
    ELSE Return(InvalidAction(v), TRUE)

\* A faulty handler that looks at the credential before the HTTP method.
handler_KeyFirst(v, ev, key, strict) ==
    IF ChecksKey(v) /\ ~key THEN Return(ConfigError(v), FALSE)
    ELSE IF ev.httpMethod # "POST" THEN Return(MethodNotAllowed(v), FALSE)
    ELSE tryBlock(v, ev.body, key, strict)

\* export const handler = async (event) => { ... }: the code run before the
\* first await.
handler(v, ev, key, strict) ==
    IF ev.httpMethod # "POST" THEN Return(MethodNotAllowed(v), FALSE)
    ELSE IF ChecksKey(v) /\ ~key THEN Return(ConfigError(v), FALSE)
    ELSE tryBlock(v, ev.body, key, strict)

\* response.text ?? response.candidates?.[0]?.content?.parts?.[0]?.text
extractText(out) == IF out.text.kind # "undefined" THEN out.text ELSE out.candText

\* A faulty success path that re-filters the items by eligibility.
OnlyEligible(p) ==
    [p EXCEPT !.items = SelectSeq(@, LAMBDA it : it.eligibilityStatus = "Eligible")]
handlerSuccess_Filtering(v, action, out) ==
    Return(Response(200, PayloadBody(OnlyEligible(out.text))), TRUE)

\* The code after `await runAI(...)` when the race was won by the capability's
\* response object.
handlerSuccess(v, action, out) ==
    CASE v \in {"gemini1", "gemini2"} ->
           Return(Response(200, PayloadBody(out.text)), TRUE)
      [] v = "gemini3" ->
           IF Falsy(extractText(out))
             THEN handlerCatch(v, Err("Error", "No content returned from Gemini AI."), TRUE)
             ELSE Return(Response(200, PayloadBody(extractText(out))), TRUE)
      [] OTHER ->
           IF Falsy(out.text)
             THEN Return(Response(200, PayloadBody(
                    IF action = "recommendations" THEN JsonDefaultArray ELSE JsonDefaultObject)), TRUE)
             ELSE Return(Response(200, PayloadBody(out.text)), TRUE)

\* The handler resumed with the settled race: a response object or a rejection.
handlerResume(v, action, out) ==
    IF out.ok THEN handlerSuccess(v, action, out) ELSE handlerCatch(v, out.error, TRUE)

\* The console lines of one request, by their role in the request lifecycle:
\* "received" (console.log at the top of the handler), "dispatched" (the line
\* logged on the way to the model call), "failed" (console.error) and
\* "completed" (the console.log of the finally block).
HasFinally(v) == v \in {"gemini3", "part004"}

\* Lines of catch { console.error(...) ... } finally { console.log(...) }.
catchLog(v) == IF HasFinally(v) THEN <<"failed", "completed">> ELSE <<"failed">>

\* gemini2 logs `Action: ...` as soon as the action is recognized; gemini3 and
\* part004 log inside runAI; gemini1 logs nothing on the way to the model.
dispatchLog(v, b, r) ==
    CASE v = "gemini2" ->
           IF ~ParseThrows(v, b) /\ b.kind = "object"
                /\ b.action \in {"recommendations", "details"}
             THEN <<"dispatched">> ELSE <<>>
      [] HasFinally(v) -> IF r.kind = "await" THEN <<"dispatched">> ELSE <<>>
      [] OTHER -> <<>>

\* The lines logged by the handler up to its first await or its return.
handlerLog(v, ev, key, strict) ==
    LET r        == handler(v, ev, key, strict)
        received == IF v = "gemini1" THEN <<>> ELSE <<"received">>
    IN  IF ev.httpMethod # "POST" THEN received
        ELSE IF ChecksKey(v) /\ ~key THEN received \o <<"failed">>
        ELSE received \o dispatchLog(v, ev.body, r)
               \o (IF r.kind = "await" THEN <<>>
                   ELSE IF r.caught # NoError THEN catchLog(v)
                   ELSE IF HasFinally(v) THEN <<"completed">> ELSE <<>>)

\* The lines logged after the race of runAI settled.
resumeLog(v, action, out) ==
    LET r == handlerResume(v, action, out) IN
    IF r.caught # NoError THEN catchLog(v)
    ELSE IF HasFinally(v) THEN <<"completed">> ELSE <<>>

----------------------------------------------------------------------------
(* Client Adapter *)

\* What an Adapter operation settles with.
NoResult       == [kind |-> "none", name |-> "", message |-> "", value |-> NoPayload]
Resolved(p)    == [kind |-> "resolved", name |-> "", message |-> "", value |-> p]
Rejected(n, m) == [kind |-> "rejected", name |-> n, message |-> m, value |-> NoPayload]

\* response.ok
Ok(resp) == resp.statusCode >= 200 /\ resp.statusCode <= 299

\* Template literal `Server error: ${response.status}` (part002a).
ServerErrorMessage(status) ==
    CASE status = 400 -> "Server error: 400"
      [] status = 405 -> "Server error: 405"
      [] status = 500 -> "Server error: 500"
      [] status = 502 -> "Server error: 502"
      [] status = 503 -> "Server error: 503"
      [] status = 504 -> "Server error: 504"
      [] OTHER        -> "Server error"

\* JSON.parse / response.json() of a body: TRUE iff it throws a SyntaxError.
BodyParseThrows(b) ==
    \/ b.fmt \in {"text", "none"}
    \/ b.fmt = "payload" /\ b.payload.kind \notin {"json", "jsonObject"}

\* `err.error` of the parsed body: the string, or "" when absent or empty.
ErrorField(b) == IF b.fmt = "errorJson" THEN b.error ELSE ""

\* JSON.stringify({action, userData}) / ({action, careerName, userData}) sent by POST.
AdapterEvent(op) == Event("POST", Body("object", op, TRUE))

\* A faulty fetchWithTimeout that never arms its timer.
AdapterDeadline_NoTimer(av) == Never

\* The timer of fetchWithTimeout; part002a/part002b call fetch directly.
AdapterDeadline(av) == IF av = "part001" THEN REQUEST_TIMEOUT ELSE Never

\* A faulty fetchWithTimeout that leaves its timer armed when fetch settles.
ClearTimeout_Forgotten(t) == t

\* clearTimeout(id) after fetch resolved and in the catch block.
ClearTimeout(t) == Never

\* TRUE iff the operation reads the response body (response.text()/json()).
\* getCareerDetails of part001 throws on !response.ok without reading it.
ReadsBody(av, op, resp) == ~(av = "part001" /\ op = "details" /\ ~Ok(resp))

\* The message of the Error thrown on !response.ok.
upstreamMessage(av, op, resp) ==
    CASE av = "part001" /\ op = "recommendations" ->
           IF ~BodyParseThrows(resp.body) /\ ErrorField(resp.body) # ""
             THEN ErrorField(resp.body) ELSE "AI_SERVICE_ERROR"
      [] av = "part001" -> "AI_DETAILS_ERROR"
      [] av = "part002a" ->
           IF BodyParseThrows(resp.body) THEN "Communication error with AI service"
           ELSE IF ErrorField(resp.body) # "" THEN ErrorField(resp.body)
           ELSE ServerErrorMessage(resp.statusCode)
      [] OTHER ->
           IF ErrorField(resp.body) # "" THEN ErrorField(resp.body)
           ELSE IF op = "recommendations" THEN "Failed to fetch recommendations from server"
           ELSE "Failed to fetch career details from server"

\* getCareerRecommendations / getCareerDetails from the fetch result onwards,
\* the body having been read.
adapterOnResponse(av, op, resp) ==
    IF ~Ok(resp)
      THEN IF av = "part002b" /\ BodyParseThrows(resp.body)
             THEN Rejected("SyntaxError", "Unexpected token in JSON")
             ELSE Rejected("Error", upstreamMessage(av, op, resp))
    ELSE IF BodyParseThrows(resp.body)
      THEN Rejected("SyntaxError", "Unexpected token in JSON")
    ELSE Resolved(resp.body.payload)

\* fetchWithTimeout's catch: an AbortError becomes Error("TIMEOUT").
abortRejection == Rejected("Error", "TIMEOUT")

\* A network-level failure of fetch is rethrown unchanged.
networkRejection == Rejected("TypeError", "Failed to fetch")

\* App.handleSubmit's catch: the error string shown for a rejection.  The
\* template `Service Error: ${error.message}` keeps the message as `detail`.
DisplayError(k, d) == [kind |-> k, detail |-> d]
handleSubmitError(res) ==
    IF Includes(res.message, "API Key") \/ Includes(res.message, "apiKey")
      THEN DisplayError("Configuration Issue", "")
    ELSE IF Includes(res.message, "quota") \/ Includes(res.message, "429")
      THEN DisplayError("Rate Limit", "")
    ELSE IF res.message # ""
      THEN DisplayError("Service Error", res.message)
    ELSE DisplayError("An unexpected error occurred. Please try again.", "")

----------------------------------------------------------------------------
(* App: the guidance form (App.tsx) *)

\* enum View, in declaration order.
Homepage           == 0
AcademicDetails    == 1
SkillsAssessment   == 2
InterestSelection  == 3
LocationPreference == 4
Results            == 5

\* const steps = ['Academics', 'Skills', 'Interests', 'Location']; steps.length
StepsLength == 4

\* The four parts of userData, each edited on its own view, and the values a
\* form part can hold.
Sections   == {"academics", "skills", "interests", "location"}
FormValues == {"default", "a", "b"}
SectionOf(view) ==
    CASE view = AcademicDetails    -> "academics"
      [] view = SkillsAssessment   -> "skills"
      [] view = InterestSelection  -> "interests"
      [] view = LocationPreference -> "location"
      [] OTHER                     -> "none"

DEFAULT_USER_DATA == [sec \in Sections |-> "default"]

\* error: null
Null == DisplayError("null", "")

\* useState<AppState>({...})
AppInitial ==
    [view |-> Homepage, step |-> 0, userData |-> DEFAULT_USER_DATA, results |-> <<>>,
     isLoading |-> FALSE, error |-> Null]

\* updateUserData({[section]: data})
updateUserData(a, sec, v) == [a EXCEPT !.userData[sec] = v]

\* A faulty nextStep that advances the step only.
nextStep_StepOnly(a) == [a EXCEPT !.step = @ + 1]

nextStep(a) == [a EXCEPT !.step = @ + 1, !.view = @ + 1]

prevStep(a) == IF a.step > 0 THEN [a EXCEPT !.step = @ - 1, !.view = @ - 1] ELSE a

startGuidance(a) == [a EXCEPT !.view = AcademicDetails, !.step = 1]

\* onRestart={() => setAppState({...})}
onRestart(a) == AppInitial

\* handleSubmit up to its await.
handleSubmitStart(a) == [a EXCEPT !.isLoading = TRUE, !.error = Null]

\* handleSubmit after the await resolved with `recommendations`.
handleSubmitResolved(a, recommendations) ==
    [a EXCEPT !.results = recommendations, !.view = Results, !.isLoading = FALSE]

\* A faulty catch that also leaves the form for the Results view.
handleSubmitRejected_ToResults(a, res) ==
    [a EXCEPT !.error = handleSubmitError(res), !.view = Results, !.isLoading = FALSE]

\* handleSubmit's catch block.
handleSubmitRejected(a, res) ==
    [a EXCEPT !.error = handleSubmitError(res), !.isLoading = FALSE]

\* {appState.view > View.Homepage && appState.view < View.Results && (...)}
FooterShown(a) == a.view > Homepage /\ a.view < Results

\* Back: disabled={appState.step === 1 || appState.isLoading}
BackEnabled(a) == FooterShown(a) /\ ~(a.step = 1 \/ a.isLoading)

\* {appState.step < steps.length + 1 ? <Continue/> : <Generate Guidance/>}
ContinueShown(a) == FooterShown(a) /\ a.step < StepsLength + 1

\* A faulty Generate Guidance button without its disabled attribute.
GenerateEnabled_NotDisabled(a) == FooterShown(a) /\ ~(a.step < StepsLength + 1)

\* Generate Guidance: disabled={appState.isLoading}
GenerateEnabled(a) ==
    FooterShown(a) /\ ~(a.step < StepsLength + 1) /\ ~a.isLoading

\* getCareerRecommendations of services/geminiService.ts, from the settled
\* generateContent call: JSON.parse(response.text || '[]'), or `throw error`.
serviceRecommendations(out) ==
    IF ~out.ok
      THEN Rejected(out.error.name, out.error.message)
    ELSE LET text == IF Falsy(out.text) THEN JsonDefaultArray ELSE out.text IN
         IF text.kind = "json" THEN Resolved(text)
         ELSE Rejected("SyntaxError", "Unexpected token in JSON")

SubmitIdle ==
    [pc |-> "idle", answers |-> FALSE, result |-> NoResult, started |-> 0, settled |-> 0]

----------------------------------------------------------------------------
(* CareerDetailsModal (part_003) *)

\* Props of the modal: the selected career and the profile.
Careers   == {"career1", "career2"}
Profiles  == {"profile1", "profile2"}
Props(c, u) == [career |-> c, userData |-> u]

\* What getCareerDetails(career.careerName, userData) resolves with.
DetailsFor(props) == [kind |-> "details", career |-> props.career, userData |-> props.userData]
NoDetails == [kind |-> "null", career |-> "", userData |-> ""]

\* The component after its first render: useState(null), useState(true),
\* useState(null); the effect is scheduled.
ModalInitial(props) ==
    [props |-> props, aiData |-> NoDetails, isLoadingAI |-> TRUE, aiError |-> "",
     effectPending |-> TRUE, effects |-> 0]

\* fetchAIData up to its await.
fetchAIDataStart(m) ==
    [m EXCEPT !.isLoadingAI = TRUE, !.aiError = "", !.effectPending = FALSE,
              !.effects = @ + 1]

\* fetchAIData after the await resolved: setAiData(fetched); finally.
fetchAIDataResolved(m, fetched) == [m EXCEPT !.aiData = fetched, !.isLoadingAI = FALSE]

\* fetchAIData's catch and finally.
fetchAIDataRejected(m) ==
    [m EXCEPT !.aiError = "Detailed dynamic guidance is currently processing. Please try again.",
              !.isLoadingAI = FALSE]

----------------------------------------------------------------------------
(* State *)

AdIdle  == [pc |-> "idle", op |-> "none", timerAt |-> Never, aborted |-> FALSE,
            abortedAfterSettle |-> FALSE, result |-> NoResult]
NetIdle == [reqAt |-> Never, failAt |-> Never, respAt |-> Never, response |-> NoResponse,
            reqDelay |-> Never, respDelay |-> Never, sent |-> 0]
GwIdle  == [pc |-> "idle", event |-> Event("GET", Body("absent", "none", FALSE)),
            action |-> "none", parsed |-> FALSE, startedAt |-> 0, timerAt |-> Never,
            timedOut |-> FALSE, caught |-> NoError, out |-> NoOutcome,
            response |-> NoResponse, responses |-> 0, log |-> <<>>]
CapIdle == [at |-> Never, invocations |-> 0, total |-> 0, expected |-> 0]

\* What the platform answers when the handler's promise rejects.
PlatformFault == Response(502, TextBody("Function invocation failed"))

Min(S) == CHOOSE x \in S : \A y \in S : x <= y

PendingTimes ==
    {net.reqAt, net.failAt, net.respAt, cap.at, gw.timerAt, ad.timerAt} \ {Never}

\* An event scheduled for time t is the next to happen.
Due(t) == t # Never /\ t = Min(PendingTimes)

AdapterSettled == ad.pc \in {"resolved", "rejected"}
GatewayDone    == gw.pc \in {"returned", "unhandled"}

\* Nothing is in flight: the next call may start.
Quiescent ==
    /\ PendingTimes = {}
    /\ \/ origin = "none"
       \/ origin = "direct" /\ GatewayDone
       \/ origin = "adapter" /\ AdapterSettled

Init ==
    /\ gwVariant \in GatewayVariants
    /\ adVariant \in AdapterVariants
    /\ apiKey \in BOOLEAN
    /\ sdkStrict \in (IF gwVariant = "gemini1" /\ ~apiKey THEN BOOLEAN ELSE {FALSE})
    /\ calls = 0
    /\ now = 0
    /\ origin = "none"
    /\ ad = AdIdle
    /\ net = NetIdle
    /\ gw = GwIdle
    /\ cap = CapIdle
    /\ app = AppInitial
    /\ submit = SubmitIdle
    /\ modal = ModalInitial(Props("career1", "profile1"))
    /\ inflight = <<>>

----------------------------------------------------------------------------
(* Gateway steps *)

\* A request that must reach the capability: POST, recognized action, profile
\* present, credential configured.
WellFormedRequest(ev) ==
    /\ ev.httpMethod = "POST"
    /\ ev.body.kind = "object"
    /\ ev.body.action \in {"recommendations", "details"}
    /\ ev.body.hasUserData
    /\ apiKey

\* A faulty runAI that calls generateContent again when it is started.
Invocations_Retry(r) == IF r.kind = "await" THEN 2 ELSE 0

\* How often one run of the handler calls ai.models.generateContent.
Invocations(r) == IF r.kind = "await" THEN 1 ELSE 0

\* A faulty fetch wrapper that sends the request twice.
Requests_Twice(op) == 2

\* How many requests one Adapter operation hands to fetch.
Requests(op) == IF op \in {"recommendations", "details"} THEN 1 ELSE 0

\* The Gateway state after the handler ran up to its first await (or its
\* return) on event ev at time t; runAI starts the capability call, which will
\* answer after `lat`, and the deadline timer.
GatewayAfterStart(ev, t, lat) ==
    LET r == handler(gwVariant, ev, apiKey, sdkStrict) IN
    /\ gw' = [pc        |-> IF r.kind = "await" THEN "awaiting"
                            ELSE IF r.kind = "return" THEN "returned" ELSE "unhandled",
              event     |-> ev,
              action    |-> r.action,
              parsed    |-> r.parsed,
              startedAt |-> t,
              caught    |-> r.caught,
              out       |-> NoOutcome,
              timerAt   |-> IF r.kind = "await" /\ GatewayDeadline(gwVariant) # Never
                              THEN t + GatewayDeadline(gwVariant) ELSE Never,
              timedOut  |-> FALSE,
              response  |-> r.response,
              responses |-> IF r.kind = "return" THEN 1 ELSE 0,
              log       |-> handlerLog(gwVariant, ev, apiKey, sdkStrict)]
    /\ cap' = [at          |-> IF r.kind = "await" /\ lat # Never THEN t + lat ELSE Never,
               invocations |-> Invocations(r),
               total       |-> cap.total + Invocations(r),
               expected    |-> cap.expected + (IF WellFormedRequest(ev) THEN 1 ELSE 0)]

\* A faulty race that lets every settlement of its inputs resume the handler.
RaceSettled_Never(g) == FALSE

\* Promise.race([aiPromise, timeoutPromise]) has settled: it takes the first
\* settlement only, a later one has no effect on the handler.
RaceSettled(g) == g.pc # "awaiting"

\* The Gateway state after the race of runAI settled with `out`.
GatewayAfterRace(out, byTimer) ==
    LET r == handlerResume(gwVariant, gw.action, out) IN
    gw' = [gw EXCEPT !.pc        = IF r.kind = "return" THEN "returned" ELSE "unhandled",
                     !.timedOut  = byTimer,
                     !.caught    = r.caught,
                     !.out       = out,
                     !.response  = r.response,
                     !.responses = IF r.kind = "return" THEN @ + 1 ELSE @,
                     !.log       = @ \o resumeLog(gwVariant, gw.action, out),
                     !.timerAt   = IF byTimer THEN Never ELSE @]

\* What the transport carries back for the Gateway state g.
WireResponse(g) == IF g.pc = "unhandled" THEN PlatformFault ELSE g.response

\* The transport takes the Gateway's answer back to a waiting fetch.
Deliver(g, t, d) ==
    IF origin = "adapter" /\ ad.pc = "fetching" /\ g.pc \in {"returned", "unhandled"}
      THEN net' = [net EXCEPT !.reqAt = Never,
                              !.respAt = IF d = Never THEN Never ELSE t + d,
                              !.respDelay = d,
                              !.response = WireResponse(g)]
      ELSE net' = [net EXCEPT !.reqAt = Never]

----------------------------------------------------------------------------
(* Actions *)

\* getCareerRecommendations(userData) / getCareerDetails(careerName, userData)
\* is called: the request is handed to fetch (part001: the abort timer is armed).
Call(op) ==
    /\ Quiescent
    /\ calls < MaxCalls
    /\ calls' = calls + 1
    /\ now' = 0
    /\ origin' = "adapter"
    /\ ad' = [AdIdle EXCEPT !.pc = "fetching", !.op = op,
                            !.timerAt = AdapterDeadline(adVariant)]
    /\ \E d \in ReqDelays \cup {0} :
         net' = IF d = 0 THEN [NetIdle EXCEPT !.failAt = 100, !.sent = Requests(op)]
                         ELSE [NetIdle EXCEPT !.reqAt = d, !.reqDelay = d,
                                              !.sent = Requests(op)]
    /\ gw' = GwIdle
    /\ cap' = [CapIdle EXCEPT !.total = cap.total, !.expected = cap.expected]
    /\ UNCHANGED <<uiVars, gwVariant, adVariant, apiKey, sdkStrict>>

\* The platform invokes the handler with an arbitrary event (no Adapter).
DirectRequest(ev) ==
    /\ Quiescent
    /\ calls < MaxCalls
    /\ calls' = calls + 1
    /\ now' = 0
    /\ origin' = "direct"
    /\ ad' = AdIdle
    /\ net' = NetIdle
    /\ \E lat \in CapLatencies : GatewayAfterStart(ev, 0, lat)
    /\ UNCHANGED <<uiVars, gwVariant, adVariant, apiKey, sdkStrict>>

\* The Adapter's request reaches the Gateway: the handler runs.
RequestArrives ==
    /\ Due(net.reqAt)
    /\ now' = net.reqAt
    /\ \E lat \in CapLatencies : GatewayAfterStart(AdapterEvent(ad.op), net.reqAt, lat)
    /\ \E d \in RespDelays : Deliver(gw', net.reqAt, d)
    /\ UNCHANGED <<uiVars, gwVariant, adVariant, apiKey, sdkStrict, calls, origin, ad>>

\* fetch rejects with a network-level failure.
FetchFails ==
    /\ Due(net.failAt)
    /\ now' = net.failAt
    /\ net' = [net EXCEPT !.failAt = Never]
    /\ ad' = [ad EXCEPT !.pc = "rejected", !.timerAt = ClearTimeout(@),
                         !.result = networkRejection]
    /\ UNCHANGED <<uiVars, gwVariant, adVariant, apiKey, sdkStrict, calls, origin, gw, cap>>

\* The capability settles its call: the handler resumes if it is still waiting.
CapabilityAnswers ==
    /\ Due(cap.at)
    /\ now' = cap.at
    /\ cap' = [cap EXCEPT !.at = Never]
    /\ IF ~RaceSettled(gw)
         THEN /\ \E out \in CapOutcomes : GatewayAfterRace(out, FALSE)
              /\ \E d \in RespDelays : Deliver(gw', cap.at, d)
         ELSE UNCHANGED <<gw, net>>
    /\ UNCHANGED <<uiVars, gwVariant, adVariant, apiKey, sdkStrict, calls, origin, ad>>

\* The setTimeout of runAI fires: timeoutPromise rejects.
GatewayTimerFires ==
    /\ Due(gw.timerAt)
    /\ now' = gw.timerAt
    /\ IF ~RaceSettled(gw)
         THEN /\ GatewayAfterRace(CapFail(TimeoutError(gwVariant)), TRUE)
              /\ \E d \in RespDelays : Deliver(gw', gw.timerAt, d)
         ELSE /\ gw' = [gw EXCEPT !.timerAt = Never]
              /\ UNCHANGED net
    /\ UNCHANGED <<uiVars, gwVariant, adVariant, apiKey, sdkStrict, calls, origin, ad, cap>>

\* fetch resolves with the response (headers); the Adapter clears its timer and
\* reads the body, which may never complete.
ResponseArrives ==
    /\ Due(net.respAt)
    /\ ad.pc = "fetching"
    /\ now' = net.respAt
    /\ net' = [net EXCEPT !.respAt = Never]
    /\ \E stall \in BOOLEAN :
         IF stall /\ ReadsBody(adVariant, ad.op, net.response)
           THEN ad' = [ad EXCEPT !.pc = "readingBody", !.timerAt = ClearTimeout(@)]
           ELSE LET res == adapterOnResponse(adVariant, ad.op, net.response) IN
                ad' = [ad EXCEPT !.pc = res.kind, !.timerAt = ClearTimeout(@),
                                 !.result = res]
    /\ UNCHANGED <<uiVars, gwVariant, adVariant, apiKey, sdkStrict, calls, origin, gw, cap>>

\* The setTimeout of fetchWithTimeout fires: controller.abort().
AdapterTimerFires ==
    /\ Due(ad.timerAt)
    /\ now' = ad.timerAt
    /\ ad' = IF ad.pc = "fetching"
               THEN [ad EXCEPT !.pc = "rejected", !.timerAt = Never, !.aborted = TRUE,
                               !.result = abortRejection]
               ELSE [ad EXCEPT !.timerAt = Never, !.aborted = TRUE,
                               !.abortedAfterSettle = TRUE]
    /\ net' = [net EXCEPT !.reqAt = Never, !.respAt = Never, !.failAt = Never]
    /\ UNCHANGED <<uiVars, gwVariant, adVariant, apiKey, sdkStrict, calls, origin, gw, cap>>

Next ==
    \/ \E op \in {"recommendations", "details"} : Call(op)
    \/ \E ev \in Events : DirectRequest(ev)
    \/ RequestArrives
    \/ FetchFails
    \/ CapabilityAnswers
    \/ GatewayTimerFires
    \/ ResponseArrives
    \/ AdapterTimerFires

Spec == Init /\ [][Next]_vars

\* Every scheduled event eventually happens.
FairSpec == Spec /\ WF_vars(Next)

----------------------------------------------------------------------------
(* App actions *)

\* The Gateway and the fetch Adapter at rest: the App and the modal of this
\* revision call the capability through services/geminiService.ts.
BackendIdle ==
    /\ gwVariant = "gemini3" /\ adVariant = "part001"
    /\ apiKey = TRUE /\ sdkStrict = FALSE
    /\ calls = 0 /\ now = 0 /\ origin = "none"
    /\ ad = AdIdle /\ net = NetIdle /\ gw = GwIdle /\ cap = CapIdle

\* Homepage: onStart
StartClick ==
    /\ app.view = Homepage
    /\ app' = startGuidance(app)
    /\ UNCHANGED <<backendVars, submit, modal, inflight>>

ContinueClick ==
    /\ ContinueShown(app)
    /\ app' = nextStep(app)
    /\ UNCHANGED <<backendVars, submit, modal, inflight>>

BackClick ==
    /\ BackEnabled(app)
    /\ app' = prevStep(app)
    /\ UNCHANGED <<backendVars, submit, modal, inflight>>

\* The form of the current view calls onUpdate.
FormEdit ==
    /\ SectionOf(app.view) \in Sections
    /\ \E v \in FormValues : app' = updateUserData(app, SectionOf(app.view), v)
    /\ UNCHANGED <<backendVars, submit, modal, inflight>>

\* CareerRecommendations: onRestart
RestartClick ==
    /\ app.view = Results
    /\ app' = onRestart(app)
    /\ UNCHANGED <<backendVars, submit, modal, inflight>>

\* Generate Guidance is clicked: handleSubmit runs up to its await; the
\* capability will answer or never will.
GenerateClick ==
    /\ GenerateEnabled(app)
    /\ submit.started < MaxSubmits
    /\ app' = handleSubmitStart(app)
    /\ \E answers \in BOOLEAN :
         submit' = [submit EXCEPT !.pc = "pending", !.answers = answers,
                                  !.result = NoResult, !.started = @ + 1]
    /\ UNCHANGED <<backendVars, modal, inflight>>

\* The generateContent call of getCareerRecommendations settles and
\* handleSubmit resumes.
SubmitSettles ==
    /\ submit.started > submit.settled
    /\ submit.answers
    /\ \E out \in CapOutcomes :
         LET res == serviceRecommendations(out) IN
         /\ submit' = [submit EXCEPT !.pc = res.kind, !.result = res, !.settled = @ + 1]
         /\ app' = IF res.kind = "resolved"
                     THEN handleSubmitResolved(app, res.value.items)
                     ELSE handleSubmitRejected(app, res)
    /\ UNCHANGED <<backendVars, modal, inflight>>

\* The form from the first render on.  Generate Guidance is rendered only
\* where step >= steps.length + 1, which these clicks never reach while the
\* footer is shown, so its click is not among them.
InitApp ==
    /\ BackendIdle
    /\ app = AppInitial
    /\ submit = SubmitIdle
    /\ modal = ModalInitial(Props("career1", "profile1"))
    /\ inflight = <<>>

NextApp ==
    \/ StartClick
    \/ ContinueClick
    \/ BackClick
    \/ FormEdit
    \/ RestartClick

SpecApp == InitApp /\ [][NextApp]_vars

\* handleSubmit as the operation behind Generate Guidance: the form starts in
\* any state in which that button is rendered and enabled.
InitSubmit ==
    /\ BackendIdle
    /\ app \in { a \in [view : Homepage..Results, step : {StepsLength + 1},
                         userData : {DEFAULT_USER_DATA}, results : {<<>>},
                         isLoading : {FALSE}, error : {Null}] : GenerateEnabled(a) }
    /\ submit = SubmitIdle
    /\ modal = ModalInitial(Props("career1", "profile1"))
    /\ inflight = <<>>

NextSubmit ==
    \/ StartClick
    \/ ContinueClick
    \/ BackClick
    \/ FormEdit
    \/ RestartClick
    \/ GenerateClick
    \/ SubmitSettles

SpecSubmit == InitSubmit /\ [][NextSubmit]_vars

\* A capability call that is going to settle eventually does.
FairSpecSubmit == SpecSubmit /\ WF_vars(SubmitSettles)

----------------------------------------------------------------------------
(* CareerDetailsModal actions *)

\* useEffect(() => { fetchAIData() }, [career, userData]) runs after a render
\* with new dependencies: the request for the current props is started.
RunEffect ==
    /\ modal.effectPending
    /\ modal' = fetchAIDataStart(modal)
    /\ inflight' = Append(inflight, modal.props)
    /\ UNCHANGED <<backendVars, app, submit>>

\* The parent renders the modal with another career or another profile.
PropsChange ==
    /\ ~modal.effectPending
    /\ modal.effects < MaxEffects
    /\ \E c \in Careers, u \in Profiles :
         /\ Props(c, u) # modal.props
         /\ modal' = [modal EXCEPT !.props = Props(c, u), !.effectPending = TRUE]
    /\ UNCHANGED <<backendVars, app, submit, inflight>>

\* One of the pending getCareerDetails calls settles, in any order.
DetailsSettles ==
    /\ \E i \in DOMAIN inflight, ok \in BOOLEAN :
         /\ modal' = IF ok THEN fetchAIDataResolved(modal, DetailsFor(inflight[i]))
                           ELSE fetchAIDataRejected(modal)
         /\ inflight' = SubSeq(inflight, 1, i - 1) \o SubSeq(inflight, i + 1, Len(inflight))
    /\ UNCHANGED <<backendVars, app, submit>>

InitModal ==
    /\ BackendIdle
    /\ app = AppInitial
    /\ submit = SubmitIdle
    /\ \E c \in Careers, u \in Profiles : modal = ModalInitial(Props(c, u))
    /\ inflight = <<>>

NextModal ==
    \/ RunEffect
    \/ PropsChange
    \/ DetailsSettles

SpecModal == InitModal /\ [][NextModal]_vars

----------------------------------------------------------------------------
(* Claims *)

Recognized(ev)   == ev.body.kind = "object" /\ ev.body.action \in {"recommendations", "details"}
GatewayStarted   == gw.pc # "idle"
IsPost           == gw.event.httpMethod = "POST"
Status           == gw.response.statusCode
HasErrorBody     == gw.response.body.fmt = "errorJson"
LongestDeadline  == AI_TIMEOUT_MS_part004
PromptTransport  == net.reqDelay = 100 /\ net.respDelay = 100

\* C1: with a recognized action, a credential and a decodable envelope, the
\* handler is never still waiting for the capability once the Gateway deadline
\* has elapsed, and a request whose deadline fired is answered 504 with an
\* {error} body.
C1_DeadlineYields504 ==
    apiKey =>
      /\ (gw.pc = "awaiting" => now - gw.startedAt <= LongestDeadline)
      /\ (gw.timedOut => gw.pc = "returned" /\ Status = 504 /\ HasErrorBody)

\* C2: when the capability stalls past the Gateway deadline and the transport
\* is prompt, the Gateway's timeout answer reaches the Adapter before the
\* Adapter's own timer fires, and the operation rejects with an Error whose
\* message is the Gateway's timeout message, not "TIMEOUT".
C2_TimeoutOrdering ==
    (/\ origin = "adapter" /\ adVariant = "part001"
     /\ gwVariant \in {"gemini3", "part004"}
     /\ gw.timedOut /\ PromptTransport)
      => /\ ~ad.aborted
         /\ AdapterSettled =>
              /\ ad.result = Rejected("Error", gw.response.body.error)
              /\ ad.result.message # "TIMEOUT"

\* C3: every call of getCareerRecommendations / getCareerDetails eventually
\* settles (resolves or rejects).
C3_EveryCallSettles == (ad.pc \in {"fetching", "readingBody"}) ~> AdapterSettled

\* C4: in the revision with the Adapter deadline (fetchWithTimeout), a step
\* that takes the clock to the deadline while fetch is still pending is the
\* abort: controller.abort() is signalled at REQUEST_TIMEOUT and the operation
\* rejects with Error("TIMEOUT"), whichever operation it is.
C4_AdapterTimeout ==
    [][ (adVariant = "part001" /\ ad.pc = "fetching" /\ now' >= REQUEST_TIMEOUT)
          => /\ now' = REQUEST_TIMEOUT
             /\ ad'.aborted
             /\ ad'.pc = "rejected"
             /\ ad'.result = Rejected("Error", "TIMEOUT")
             /\ ad'.op = ad.op ]_vars

\* C4 witness: getCareerDetails was aborted at the deadline and rejected with TIMEOUT.
C4_Witness ==
    /\ adVariant = "part001" /\ ad.op = "details" /\ ad.aborted
    /\ now = REQUEST_TIMEOUT /\ ad.result = Rejected("Error", "TIMEOUT")

\* C5: the handler never fails with an unhandled exception.
C5_NeverUnhandled == gw.pc # "unhandled"

\* The capability signalled overload: a rate-limit or a service-overloaded indication.
OverloadSignal(e) ==
    e.hasMessage /\ (Includes(e.message, "503") \/ Includes(e.message, "overloaded")
                       \/ Includes(e.message, "429"))

\* C6: of the failures caught after the credential check, a deadline expiry
\* yields 504, an overload signal yields 503, every other one yields 500.
C6_ErrorMapping ==
    (apiKey /\ gw.pc = "returned" /\ gw.caught # NoError) =>
      Status = (IF gw.timedOut THEN 504
                ELSE IF OverloadSignal(gw.caught) THEN 503 ELSE 500)

\* C7: every non-200 response carries a JSON {error: string} body; a 200
\* response carries the capability's text payload.
C7_ResponseBodies ==
    gw.pc = "returned" =>
      IF Status # 200
        THEN Status \in {405, 400, 500, 503, 504} /\ HasErrorBody
        ELSE gw.out.ok /\ gw.response.body = PayloadBody(extractText(gw.out))

InvalidActionEvent(ev) ==
    ev.httpMethod = "POST" /\ ev.body.kind = "object" /\ ev.body.action \in {"other", "none"}

\* C8 (as stated): a POST whose decoded body has no action, or an unrecognized
\* one, gets status 400 and the capability is not invoked.
C8_InvalidAction400 ==
    (GatewayStarted /\ InvalidActionEvent(gw.event))
      => gw.pc = "returned" /\ Status = 400 /\ cap.invocations = 0

\* C8 (amended): with a credential configured, a POST whose decoded body has
\* no action, or an unrecognized one, gets status 400 and the capability is
\* not invoked.
C8_InvalidAction400_WithCredential ==
    (apiKey /\ GatewayStarted /\ InvalidActionEvent(gw.event))
      => gw.pc = "returned" /\ Status = 400 /\ cap.invocations = 0

\* C8 witness: a configured Gateway answered 400 to a body with no action field.
C8_Witness ==
    /\ apiKey /\ gw.pc = "returned" /\ InvalidActionEvent(gw.event)
    /\ gw.event.body.action = "none" /\ Status = 400 /\ cap.invocations = 0

MalformedEvent(ev) ==
    /\ ev.httpMethod = "POST"
    /\ \/ ev.body.kind = "notJson"
       \/ Recognized(ev) /\ ~ev.body.hasUserData

\* C9: with a credential configured, a POST whose body is not JSON, or has a
\* recognized action and no userData, gets status 400 and the capability is
\* not invoked.
C9_Malformed400 ==
    (apiKey /\ GatewayStarted /\ MalformedEvent(gw.event))
      => gw.pc = "returned" /\ Status = 400 /\ cap.invocations = 0

\* C10: with no credential, every POST gets the configuration error (500,
\* {error}) before its body is parsed, and the capability is never invoked.
C10_MissingCredential ==
    (~apiKey /\ GatewayStarted /\ IsPost)
      => /\ gw.pc = "returned" /\ Status = 500 /\ HasErrorBody
         /\ ~gw.parsed
         /\ cap.total = 0

\* The Adapter operation settled on a response it received from the Gateway.
SawResponse ==
    origin = "adapter" /\ AdapterSettled /\ ~ad.aborted /\ net.response # NoResponse

\* The capability answered with an empty (or missing) text payload.
EmptyAnswer == gw.out.ok /\ Falsy(gw.out.text) /\ Falsy(gw.out.candText)

\* C11: when the capability answers with an empty text payload the Gateway
\* returns a failure response (non-200, {error} body); it never returns 200
\* with an empty, missing or substituted body and never crashes.  (Stated for
\* a configured credential.)
C11_EmptyPayloadFails ==
    (apiKey /\ GatewayDone /\ EmptyAnswer)
      => gw.pc = "returned" /\ Status # 200 /\ HasErrorBody

\* C12: no rejection of an Adapter operation is the raw exception of the
\* transport (TypeError) or of the JSON parser (SyntaxError).
C12_RejectionsNormalized ==
    ad.pc = "rejected" => ad.result.name \notin {"TypeError", "SyntaxError"}

\* The fixed generic fallback strings of the Adapter revisions.
GenericFallbacks ==
    { "AI_SERVICE_ERROR", "AI_DETAILS_ERROR", "Communication error with AI service",
      "Failed to fetch recommendations from server",
      "Failed to fetch career details from server" }

\* C13: on a non-success status, for both operations, the rejection's message
\* is the body's non-empty error string when the body parses to an object that
\* has one, and a fixed generic fallback string otherwise.
C13_UpstreamMessage ==
    (apiKey /\ SawResponse /\ ~Ok(net.response)) =>
      /\ ad.pc = "rejected"
      /\ IF net.response.body.fmt = "errorJson" /\ net.response.body.error # ""
           THEN ad.result.message = net.response.body.error
           ELSE ad.result.message \in GenericFallbacks

\* C14: no Gateway response makes an Adapter operation reject with the error
\* value of the Adapter's own deadline expiry, and App.handleSubmit shows the
\* two as different error strings.
C14_TimeoutDistinct ==
    (apiKey /\ adVariant = "part001" /\ SawResponse /\ ad.pc = "rejected") =>
      /\ ad.result # abortRejection
      /\ handleSubmitError(ad.result) # handleSubmitError(abortRejection)

\* C15: getCareerRecommendations never resolves with an empty sequence.
C15_NeverEmpty ==
    (apiKey /\ ad.op = "recommendations" /\ ad.pc = "resolved") => ad.result.value.items # <<>>

\* C16: every item of a sequence returned by getCareerRecommendations has
\* eligibilityStatus in {Eligible, Not Eligible} and riskLevel in {Low, Medium, High}.
C16_EnumsHold ==
    (apiKey /\ ad.op = "recommendations" /\ ad.pc = "resolved") =>
      \A i \in 1..Len(ad.result.value.items) :
        /\ ad.result.value.items[i].eligibilityStatus \in {"Eligible", "Not Eligible"}
        /\ ad.result.value.items[i].riskLevel \in {"Low", "Medium", "High"}

\* C17: the sequence getCareerRecommendations resolves with is the item
\* sequence of the capability's text (response.text, or the candidate text the
\* Gateway falls back to), same items, same order, same number; items marked
\* 'Not Eligible' are kept.
C17_Unmodified ==
    (origin = "adapter" /\ ad.op = "recommendations" /\ ad.pc = "resolved") =>
      /\ gw.out.ok
      /\ ad.result.value.items \in {gw.out.text.items, gw.out.candText.items}
      /\ Len(ad.result.value.items) =
           Len(IF Falsy(gw.out.text) /\ gwVariant = "gemini3"
                 THEN gw.out.candText.items ELSE gw.out.text.items)

\* C17 witness: a two-item payload with a 'Not Eligible' item came back whole.
C17_Witness ==
    /\ ad.op = "recommendations" /\ ad.pc = "resolved"
    /\ ad.result.value.items = <<Item("Not Eligible", "High"), Item("Eligible", "Medium")>>
    /\ gw.out.text.items = ad.result.value.items

\* C18: no retry, no caching, no dedup: one request per Adapter call, at most
\* one capability invocation per Gateway request and exactly one when the
\* request is well formed and the credential is configured, also after a
\* failure or a timeout; n such requests invoke the capability n times.
C18_OneAttempt ==
    /\ cap.invocations <= 1
    /\ cap.total <= calls
    /\ origin = "adapter" => net.sent = 1
    /\ (GatewayStarted /\ WellFormedRequest(gw.event)) => cap.invocations = 1
    /\ apiKey => cap.total = cap.expected

\* C18 witness: two calls, the second after a Gateway timeout, two invocations.
C18_Witness ==
    /\ calls = 2 /\ cap.total = 2 /\ cap.expected = 2
    /\ origin = "adapter" /\ gw.timedOut /\ AdapterSettled

\* The error strings written in the Gateway revisions.
GatewayAuthored ==
    { "Method Not Allowed", "Invalid Action Provided", "Invalid Action",
      "Backend configuration error: API Key missing.",
      "API_KEY missing. Please configure it in Netlify Site Settings.",
      "API Key not configured in environment.",
      "Internal server error during AI processing", "Failed to process AI request",
      "The AI advisor is temporarily unavailable.",
      "AI service timed out. Falling back to local guidance.",
      "AI model is currently overloaded. Falling back to local guidance.",
      "AI processing timed out. Switching to local database.",
      "AI service is currently overloaded. Using local database fallback." }

\* C20: the error string of a failure response that follows a capability
\* invocation is Gateway-authored and is never the message text of the error
\* the capability raised.
C20_NoProviderText ==
    (apiKey /\ cap.invocations = 1 /\ gw.pc = "returned" /\ Status # 200 /\ HasErrorBody) =>
      /\ gw.response.body.error \in GatewayAuthored
      /\ (gw.caught \in CapErrors /\ gw.caught.hasMessage)
           => gw.response.body.error # gw.caught.message

\* How often line x occurs in the log lines.
Count(lines, x) == Cardinality({i \in DOMAIN lines : lines[i] = x})

\* C21: in the revisions that log the whole lifecycle, every request logs a
\* "received" line first, one "dispatched" line per capability invocation, and
\* ends, on every exit path, with exactly one completed/failed line.
C21_LifecycleLog ==
    (HasFinally(gwVariant) /\ GatewayDone) =>
      /\ gw.log # <<>> /\ Head(gw.log) = "received"
      /\ Count(gw.log, "dispatched") = cap.invocations
      /\ Count(gw.log, "completed") + Count(gw.log, "failed") = 1
      /\ gw.log[Len(gw.log)] \in {"completed", "failed"}

\* C25: a request gets at most one response from the handler, and once the
\* response is returned, a capability result or failure that arrives after the
\* deadline timer fired, and a deadline timer that fires after the capability
\* answered, neither change that response nor raise an unhandled error.
C25_OneResponse ==
    [][ /\ gw'.responses <= 1
        /\ (GatewayDone /\ calls' = calls) =>
             /\ gw'.pc = gw.pc
             /\ gw'.response = gw.response
             /\ gw'.responses = gw.responses ]_vars

\* C25 witness: the deadline fired, the 504 went out, and the capability's
\* late answer has since arrived.
C25_Witness ==
    /\ gw.pc = "returned" /\ gw.timedOut /\ gw.responses = 1
    /\ cap.invocations = 1 /\ cap.at = Never
    /\ now = gw.startedAt + 9000

\* C29: a request whose method is not POST gets status 405, its body is not
\* parsed and the capability is not invoked, whether or not the credential is
\* configured.
C29_MethodNotAllowed ==
    (GatewayStarted /\ ~IsPost) =>
      /\ gw.pc = "returned"
      /\ Status = 405
      /\ ~gw.parsed
      /\ cap.invocations = 0

\* C29 witness: a non-POST request answered 405 without a credential.
C29_Witness ==
    GatewayStarted /\ ~IsPost /\ ~apiKey /\ ChecksKey(gwVariant) /\ Status = 405

\* C30: fetchWithTimeout's timer is cleared on every exit path: it is armed
\* only while fetch is pending, abort is never signalled after fetch settled,
\* and an abort is what rejected the call.
C30_TimerCleared ==
    /\ ad.pc # "fetching" => ad.timerAt = Never
    /\ ~ad.abortedAfterSettle
    /\ ad.aborted => ad.pc = "rejected" /\ ad.result = abortRejection

\* C30 witness: a call of the revision with the timer got a slow response
\* before the deadline and resolved with its timer cleared.
C30_Witness ==
    /\ adVariant = "part001" /\ ad.pc = "resolved" /\ ~ad.aborted
    /\ ad.timerAt = Never /\ net.respDelay = 4000

\* C22: once every getCareerDetails call of the modal has settled, aiData is
\* not the result for another career or profile than the current one, whatever
\* the order in which the responses arrived and also after a failed call.
C22_CurrentCareerOnly ==
    (inflight = <<>> /\ ~modal.effectPending) =>
      modal.aiData \in {NoDetails, DetailsFor(modal.props)}

\* C23: the Results view is entered only by a handleSubmit whose
\* getCareerRecommendations call resolved, and results is what that call
\* returned; Start, Continue and Back alone never reach Results.
C23_ResultsOnlyBySubmit ==
    app.view = Results =>
      /\ submit.pc = "resolved"
      /\ app.results = submit.result.value.items

\* The two outcomes of a finished handleSubmit, exactly one of which holds.
SubmitOutcome ==
    (app.view = Results /\ app.error = Null) # (app.error # Null)

C26_SubmitFrame ==
    [][ /\ (submit'.settled # submit.settled /\ submit'.pc = "rejected") =>
             /\ app'.view = app.view /\ app'.step = app.step
             /\ app'.userData = app.userData /\ app'.results = app.results
             /\ app'.error # Null /\ app'.error.kind # ""
             /\ ~app'.isLoading
        /\ (submit'.settled # submit.settled /\ submit'.pc = "resolved") =>
             /\ app'.step = app.step /\ app'.userData = app.userData
             /\ app'.results = submit'.result.value.items
             /\ app.error = Null /\ app'.error = Null ]_vars

\* C26 witness: a rejected call left an edited form on its view with an error.
C26_Witness ==
    /\ submit.pc = "rejected" /\ submit.settled = 1
    /\ app.error # Null /\ ~app.isLoading
    /\ app.view = LocationPreference /\ app.userData # DEFAULT_USER_DATA

\* C27: in every App state whose view is not Results step equals the number
\* of the view and is not negative, and restart gives the initial state.
C27_StepIsView ==
    [][ /\ app'.view # Results => app'.step = app'.view
        /\ app'.step >= 0
        /\ (app.view = Results /\ app'.view # Results) => app' = AppInitial ]_vars

\* C27 witness: the last form view, reached by Start and Continue clicks (and
\* Back clicks, to edit the first form part last), two form parts edited.
C27_Witness ==
    /\ app.view = LocationPreference /\ app.step = StepsLength
    /\ app.userData["academics"] = "b" /\ app.userData["location"] = "a"

\* C28: at most one getCareerRecommendations call of App is in flight, and
\* while isLoading is true neither a further handleSubmit starts nor do view
\* and step change until the call settles.
C28_SingleFlight ==
    [][ /\ submit'.started - submit'.settled <= 1
        /\ app'.isLoading <=> (submit'.started - submit'.settled = 1)
        /\ (app.isLoading /\ submit'.settled = submit.settled) =>
             /\ submit'.started = submit.started
             /\ app'.view = app.view /\ app'.step = app.step ]_vars

\* C28 witness: a second call in flight after the first one was rejected, the
\* form edited while loading.
C28_Witness ==
    /\ app.isLoading /\ submit.started = 2 /\ submit.settled = 1
    /\ app.userData # DEFAULT_USER_DATA

====
